---- MODULE Spec2Model ----
(***************************************************************************)
(* A model of moln's bencode codec: the rule-driven Lexer with its         *)
(* position tracking (moln/lexer), the bencode token rules and the         *)
(* funcparserlib grammar built by decode_tokens (moln/bencode/tokens), and *)
(* encode_bytes / decode_bytes (moln/bencode).                             *)
(*                                                                         *)
(* A bytes object is a sequence of integers 0..255.  A Python value is a   *)
(* tagged record: int, bytes, list, dict (entries in insertion order).     *)
(***************************************************************************)
EXTENDS Integers, Sequences, FiniteSets, TLC

VARIABLES
    call,              \* "decode": decode_bytes(source); "encode_decode": decode_bytes(encode_bytes(x));
                       \* "advance": get_new_position over two consecutive spans
    x,                 \* what the caller holds: the document source spells, the argument of
                       \* encode_bytes, or the two spans and the start position
    source,            \* the byte buffer handed to decode_bytes
    current_index,     \* Lexer.__call__: offset into source
    current_position,  \* Lexer.__call__: <<line, character>>
    tokens,            \* the tokens yielded so far, collected by list(...)
    pc,                \* "encode", "lex", "parse", "returned", "raised"; "advance_a", "advance_b", "advanced"
    result,            \* the value decode_bytes returned
    exc,               \* the kind of the exception that left the call
    cause              \* the exception a DecodeError was raised from

vars == <<call, x, source, current_index, current_position, tokens, pc, result, exc, cause>>

-----------------------------------------------------------------------------
(* Bounds of the inputs. *)

MaxRawLen == 3    \* raw buffers: every byte string up to this length
MaxInt == 11      \* integer documents: -MaxInt .. MaxInt
MaxStrLen == 2    \* byte-string documents: every body up to this length
MaxItems == 2     \* list items / dictionary pairs per container
MaxSpanLen == 3   \* consumed spans handed to get_new_position

-----------------------------------------------------------------------------
(* Bytes. *)

Chr == [i |-> 105, l |-> 108, d |-> 100, e |-> 101, colon |-> 58, minus |-> 45,
        nl |-> 10, zero |-> 48, one |-> 49, two |-> 50, a |-> 97, b |-> 98, nul |-> 0]

IsDigit(c) == c \in Chr.zero .. (Chr.zero + 9)

Min(m, n) == IF m < n THEN m ELSE n

\* source[lo:hi] for 0 <= lo: Python slicing clamps hi to len(source).
Slice(s, lo, hi) == SubSeq(s, lo + 1, Min(hi, Len(s)))

\* bytes.count(c)
Count(s, c) == Cardinality({k \in 1..Len(s) : s[k] = c})

\* bytes.rfind(c): the 0-based index of the last c, -1 when there is none.
RFind(s, c) ==
    LET hits == {k \in 1..Len(s) : s[k] = c}
    IN  IF hits = {} THEN -1 ELSE (CHOOSE k \in hits : \A m \in hits : m <= k) - 1

\* bytes.find(c), used by the faulty variant of get_new_position: the 0-based index of the first c, -1 when there is none.
Find(s, c) ==
    LET hits == {k \in 1..Len(s) : s[k] = c}
    IN  IF hits = {} THEN -1 ELSE (CHOOSE k \in hits : \A m \in hits : k <= m) - 1

RECURSIVE StrNat(_)
StrNat(n) == IF n < 10 THEN <<Chr.zero + n>> ELSE StrNat(n \div 10) \o <<Chr.zero + (n % 10)>>

\* str(n).encode(): the decimal digits, '-' first for a negative n.
Str(n) == IF n < 0 THEN <<Chr.minus>> \o StrNat(0 - n) ELSE StrNat(n)

RECURSIVE ParseInt(_)
\* int(b) for a bytes object of decimal digits
ParseInt(digits) ==
    IF digits = <<>> THEN 0
    ELSE 10 * ParseInt(SubSeq(digits, 1, Len(digits) - 1)) + (digits[Len(digits)] - Chr.zero)

-----------------------------------------------------------------------------
(* moln/lexer: position tracking and regular-expression rules. *)

\* A faulty variant: the column counted from the first newline of the span (find for rfind).
get_new_position_first_newline(source_delta, start_position) ==
    LET new_lines == Count(source_delta, Chr.nl)
    IN  << start_position[1] + new_lines,
           IF new_lines > 0
           THEN Len(source_delta) - Find(source_delta, Chr.nl) - 1
           ELSE start_position[2] + Len(source_delta) >>

get_new_position(source_delta, start_position) ==
    LET start_line == start_position[1]
        start_character == start_position[2]
        new_lines == Count(source_delta, Chr.nl)
        end_line == start_line + new_lines
        end_character == IF new_lines > 0
                         THEN Len(source_delta) - RFind(source_delta, Chr.nl) - 1
                         ELSE start_character + Len(source_delta)
    IN  <<end_line, end_character>>

None == [name |-> "None"]

Token(name, value, start, end) == [name |-> name, value |-> value, start |-> start, end |-> end]

RECURSIVE DigitRun(_, _)
\* How many bytes from 0-based index k on are digits: what [0-9]* consumes.
DigitRun(s, k) == IF k < Len(s) /\ IsDigit(s[k + 1]) THEN 1 + DigitRun(s, k + 1) ELSE 0

\* A faulty variant: rb'[0-9]*', which also matches the empty string.
NumberRegexAnyDigits(s, k) == DigitRun(s, k)

\* rb'0|[1-9][0-9]*' matched at index k: the length of the match, -1 for no match.
NumberRegex(s, k) ==
    IF k >= Len(s) THEN -1
    ELSE IF s[k + 1] = Chr.zero THEN 1
    ELSE IF IsDigit(s[k + 1]) THEN DigitRun(s, k)
    ELSE -1

\* rb'[ild]'
TypeRegex(s, k) == IF k < Len(s) /\ s[k + 1] \in {Chr.i, Chr.l, Chr.d} THEN 1 ELSE -1

\* rb'e'
EndRegex(s, k) == IF k < Len(s) /\ s[k + 1] = Chr.e THEN 1 ELSE -1

\* rb'([1-9][0-9]*):' : the length of group(0), -1 for no match.
PreambleRegex(s, k) ==
    IF k < Len(s) /\ IsDigit(s[k + 1]) /\ s[k + 1] # Chr.zero
    THEN LET n == DigitRun(s, k)
         IN  IF k + n < Len(s) /\ s[k + n + 1] = Chr.colon THEN n + 1 ELSE -1
    ELSE -1

Regex(name, s, k) ==
    CASE name = "Number" -> NumberRegex(s, k)
      [] name = "Type"   -> TypeRegex(s, k)
      [] name = "End"    -> EndRegex(s, k)

\* Token.match_spec: a Token in "Token Mode", or None.
Token_match_spec(name, src, start_index, start_position) ==
    LET n == Regex(name, src, start_index)
    IN  IF n >= 0
        THEN LET value == Slice(src, start_index, start_index + n)
             IN  Token(name, value, start_position, get_new_position(value, start_position))
        ELSE None

\* A faulty variant: the token value is the body alone, without the "<length>:" prefix.
StringToken_match_spec_body_only(name, src, start_index, start_position) ==
    LET n == PreambleRegex(src, start_index)
    IN  IF n >= 0
        THEN LET str_length == ParseInt(Slice(src, start_index, start_index + n - 1))
                 str_last == start_index + n + str_length
                 value == Slice(src, start_index + n, str_last)
             IN  Token(name, value, start_position, get_new_position(value, start_position))
        ELSE None

\* StringToken.match_spec: the prefix "<length>:" and the bytes source[start_index:str_last].
StringToken_match_spec(name, src, start_index, start_position) ==
    LET n == PreambleRegex(src, start_index)
    IN  IF n >= 0
        THEN LET str_length == ParseInt(Slice(src, start_index, start_index + n - 1))
                 preamble_length == n
                 str_last == start_index + preamble_length + str_length
                 value == Slice(src, start_index, str_last)
             IN  Token(name, value, start_position, get_new_position(value, start_position))
        ELSE None

\* tokenize: the rules of the bencode Lexer, in priority order.
specs == <<"String", "Number", "Type", "End">>

match_spec(spec, src, start_index, start_position) ==
    IF spec = "String"
    THEN StringToken_match_spec(spec, src, start_index, start_position)
    ELSE Token_match_spec(spec, src, start_index, start_position)

RECURSIVE match_from(_, _, _, _)
match_from(k, src, index, position) ==
    IF k > Len(specs) THEN None
    ELSE LET token == match_spec(specs[k], src, index, position)
         IN  IF token # None THEN token ELSE match_from(k + 1, src, index, position)

\* Lexer.__call__.match_specs: the first rule's token; None stands for raise SyntaxError.
match_specs(src, index, position) == match_from(1, src, index, position)

-----------------------------------------------------------------------------
(* Python values. *)

PyInt(n) == [kind |-> "int", i |-> n]
PyBytes(b) == [kind |-> "bytes", b |-> b]
PyList(items) == [kind |-> "list", items |-> items]
PyDict(entries) == [kind |-> "dict", entries |-> entries]   \* entries: <<key, value>> in insertion order

Raw == [kind |-> "raw"]
NoValue == [kind |-> "none"]

\* hash(v) succeeds: list and dict are unhashable.
Hashable(v) == v.kind \in {"int", "bytes"}

\* d[k] = v on an insertion-ordered dict: a present key keeps its place and takes the new value.
DictSet(entries, k, v) ==
    IF \E j \in 1..Len(entries) : entries[j][1] = k
    THEN [j \in 1..Len(entries) |-> IF entries[j][1] = k THEN <<k, v>> ELSE entries[j]]
    ELSE Append(entries, <<k, v>>)

RECURSIVE DictOf(_, _)
\* dict(pairs), pairs[1..n] inserted in order
DictOf(pairs, n) ==
    IF n = 0 THEN <<>> ELSE DictSet(DictOf(pairs, n - 1), pairs[n][1], pairs[n][2])

-----------------------------------------------------------------------------
(* moln/bencode/tokens: decode_tokens, the funcparserlib grammar.  A parser *)
(* takes the token list and the 1-based index of the next token and gives   *)
(* Ok(value, next index), NoParse (funcparserlib's NoParseError, which the   *)
(* combinators | and many catch) or Raised (an exception of a mapping        *)
(* function, which nothing in the grammar catches).                          *)

Ok(v, p) == [st |-> "ok", val |-> v, pos |-> p]
NoParse == [st |-> "NoParseError"]
Raised(kind) == [st |-> kind]

_to_int(token) == PyInt(ParseInt(token))

\* str_strip_re.sub(b'', s) with rb'^\d+:' : drops a leading "<digits>:".
_to_string(s) ==
    LET n == DigitRun(s, 0)
    IN  IF n >= 1 /\ n < Len(s) /\ s[n + 1] = Chr.colon
        THEN PyBytes(SubSeq(s, n + 2, Len(s)))
        ELSE PyBytes(s)

_to_list(_tokens) == PyList(_tokens)

\* dict(_to_list(n)): TypeError for an unhashable key.
_to_dict(n) ==
    IF \E j \in 1..Len(n) : ~Hashable(n[j][1])
    THEN Raised("TypeError")
    ELSE Ok(PyDict(DictOf(n, Len(n))), 0)

\* p.some(lambda x: x.name == t) >> token_value
token_type(t, toks, pos) ==
    IF pos <= Len(toks) /\ toks[pos].name = t THEN Ok(toks[pos].value, pos + 1) ELSE NoParse

\* p.a(Token('Type', type_name)): Token.__eq__ compares name and value.
type_decl(type_name, toks, pos) ==
    IF pos <= Len(toks) /\ toks[pos].name = "Type" /\ toks[pos].value = <<type_name>>
    THEN Ok(toks[pos], pos + 1) ELSE NoParse

\* p.a(Token('End', b'e'))
end(toks, pos) ==
    IF pos <= Len(toks) /\ toks[pos].name = "End" /\ toks[pos].value = <<Chr.e>>
    THEN Ok(toks[pos], pos + 1) ELSE NoParse

str_decl(toks, pos) ==
    LET r == token_type("String", toks, pos)
    IN  IF r.st = "ok" THEN Ok(_to_string(r.val), r.pos) ELSE r

integer_decl(toks, pos) ==
    LET t == type_decl(Chr.i, toks, pos)
    IN  IF t.st # "ok" THEN t
        ELSE LET n == token_type("Number", toks, t.pos)
             IN  IF n.st # "ok" THEN n
                 ELSE LET e == end(toks, n.pos)
                      IN  IF e.st # "ok" THEN e ELSE Ok(_to_int(n.val), e.pos)

RECURSIVE value(_, _)
RECURSIVE many_value(_, _, _)
RECURSIVE many_pair(_, _, _)

\* p.many(value): collects values until value fails to parse.
many_value(toks, pos, acc) ==
    LET r == value(toks, pos)
    IN  IF r.st = "ok" THEN many_value(toks, r.pos, Append(acc, r.val))
        ELSE IF r.st = "NoParseError" THEN Ok(acc, pos)
        ELSE r

\* p.many(value + value): collects pairs until a pair fails to parse.
many_pair(toks, pos, acc) ==
    LET k == value(toks, pos)
    IN  IF k.st = "NoParseError" THEN Ok(acc, pos)
        ELSE IF k.st # "ok" THEN k
        ELSE LET v == value(toks, k.pos)
             IN  IF v.st = "NoParseError" THEN Ok(acc, pos)
                 ELSE IF v.st # "ok" THEN v
                 ELSE many_pair(toks, v.pos, Append(acc, <<k.val, v.val>>))

dict_decl(toks, pos) ==
    LET t == type_decl(Chr.d, toks, pos)
    IN  IF t.st # "ok" THEN t
        ELSE LET m == many_pair(toks, t.pos, <<>>)
             IN  IF m.st # "ok" THEN m
                 ELSE LET e == end(toks, m.pos)
                      IN  IF e.st # "ok" THEN e
                          ELSE LET d == _to_dict(m.val)
                               IN  IF d.st # "ok" THEN d ELSE Ok(d.val, e.pos)

list_decl(toks, pos) ==
    LET t == type_decl(Chr.l, toks, pos)
    IN  IF t.st # "ok" THEN t
        ELSE LET m == many_value(toks, t.pos, <<>>)
             IN  IF m.st # "ok" THEN m
                 ELSE LET e == end(toks, m.pos)
                      IN  IF e.st # "ok" THEN e ELSE Ok(_to_list(m.val), e.pos)

\* integer_decl | dict_decl | list_decl | str_decl
value(toks, pos) ==
    LET r1 == integer_decl(toks, pos)
        r2 == dict_decl(toks, pos)
        r3 == list_decl(toks, pos)
    IN  IF r1.st # "NoParseError" THEN r1
        ELSE IF r2.st # "NoParseError" THEN r2
        ELSE IF r3.st # "NoParseError" THEN r3
        ELSE str_decl(toks, pos)

\* (value + p.skip(p.finished)).parse(s)
bencode_decl(toks) ==
    LET r == value(toks, 1)
    IN  IF r.st # "ok" THEN r
        ELSE IF r.pos <= Len(toks) THEN NoParse
        ELSE r

decode_tokens(s) == bencode_decl(s)

-----------------------------------------------------------------------------
(* moln/bencode: encode_bytes. *)

\* bytes(n) for an int n >= 0: n zero bytes.
ZeroBytes(n) == [k \in 1..n |-> Chr.nul]

RECURSIVE encode_bytes(_)
RECURSIVE encode_items(_, _)
RECURSIVE encode_entries(_, _)

\* b''.join(encode_bytes(i) for i in x): items[k..]
encode_items(items, k) ==
    IF k > Len(items) THEN Ok(<<>>, 0)
    ELSE LET h == encode_bytes(items[k])
         IN  IF h.st # "ok" THEN h
             ELSE LET t == encode_items(items, k + 1)
                  IN  IF t.st # "ok" THEN t ELSE Ok(h.val \o t.val, 0)

\* b''.join(encode_bytes(k) + encode_bytes(v) for k, v in x.items()): entries[k..]
encode_entries(entries, k) ==
    IF k > Len(entries) THEN Ok(<<>>, 0)
    ELSE LET hk == encode_bytes(entries[k][1])
         IN  IF hk.st # "ok" THEN hk
             ELSE LET hv == encode_bytes(entries[k][2])
                  IN  IF hv.st # "ok" THEN hv
                      ELSE LET t == encode_entries(entries, k + 1)
                           IN  IF t.st # "ok" THEN t ELSE Ok(hk.val \o hv.val \o t.val, 0)

encode_bytes(v) ==
    CASE v.kind = "bytes" -> Ok(Str(Len(v.b)) \o <<Chr.colon>> \o v.b, 0)
      [] v.kind = "int" ->
            IF v.i < 0 THEN Raised("ValueError")      \* bytes(x): negative count
            ELSE Ok(<<Chr.i>> \o ZeroBytes(v.i) \o <<Chr.e>>, 0)
      [] v.kind = "list" ->
            LET r == encode_items(v.items, 1)
            IN  IF r.st # "ok" THEN r ELSE Ok(<<Chr.l>> \o r.val \o <<Chr.e>>, 0)
      [] v.kind = "dict" ->
            LET r == encode_entries(v.entries, 1)
            IN  IF r.st # "ok" THEN r ELSE Ok(<<Chr.d>> \o r.val \o <<Chr.e>>, 0)
      [] OTHER -> Raised("EncodeError")

-----------------------------------------------------------------------------
(* Inputs: raw buffers, and documents written out in bencode. *)

BytesUpTo(alphabet, n) == UNION {[1..k -> alphabet] : k \in 0..n}

SeqsUpTo(S, n) == UNION {[1..k -> S] : k \in 0..n}

RawAlphabet == {Chr.i, Chr.l, Chr.e, Chr.zero, Chr.one, Chr.two, Chr.colon, Chr.minus, Chr.nl, Chr.a}

RawInputs == BytesUpTo(RawAlphabet, MaxRawLen)

StrAlphabet == {Chr.one, Chr.colon, Chr.e, Chr.nl, Chr.nul, Chr.a}

IntDocs == {PyInt(n) : n \in (0 - MaxInt)..MaxInt}

StrDocs == {PyBytes(b) : b \in BytesUpTo(StrAlphabet, MaxStrLen)}

ItemDocs == {PyInt(0), PyInt(2), PyBytes(<<Chr.a>>), PyBytes(<<Chr.nl>>), PyBytes(<<>>), PyList(<<>>),
             PyList(<<PyBytes(<<Chr.b>>)>>), PyDict(<<>>), PyDict(<< <<PyBytes(<<Chr.a>>), PyBytes(<<Chr.b>>)>> >>)}

KeyDocs == {PyBytes(<<Chr.a>>), PyBytes(<<Chr.b>>), PyInt(0), PyList(<<>>)}

ValDocs == {PyBytes(<<Chr.a>>), PyBytes(<<Chr.nl>>), PyList(<<>>), PyDict(<<>>)}

ListDocs == {PyList(s) : s \in SeqsUpTo(ItemDocs, MaxItems)}

DictDocs == {PyDict(s) : s \in SeqsUpTo(KeyDocs \X ValDocs, MaxItems)}

SpanAlphabet == {Chr.nl, Chr.a, Chr.colon}

Spans == BytesUpTo(SpanAlphabet, MaxSpanLen)

Positions == {<<0, 0>>, <<0, 2>>, <<1, 0>>, <<3, 5>>}

Documents == IntDocs \cup StrDocs \cup ListDocs \cup DictDocs

RECURSIVE IsValue(_)
\* A Value of the four kinds: every dictionary has ByteString keys, each once.
IsValue(v) ==
    CASE v.kind = "list" -> \A k \in 1..Len(v.items) : IsValue(v.items[k])
      [] v.kind = "dict" ->
            /\ \A k \in 1..Len(v.entries) :
                  v.entries[k][1].kind = "bytes" /\ IsValue(v.entries[k][2])
            /\ \A j, k \in 1..Len(v.entries) : v.entries[j][1] = v.entries[k][1] => j = k
      [] OTHER -> v.kind \in {"int", "bytes"}

Values == {v \in Documents : IsValue(v)}

RECURSIVE Bencoding(_)
RECURSIVE BencodingAll(_, _)

BencodingAll(docs, k) ==
    IF k > Len(docs) THEN <<>> ELSE Bencoding(docs[k]) \o BencodingAll(docs, k + 1)

\* The bencode spelling of a document: i<decimal>e, <length>:<bytes>, l...e, d<key><value>...e.
Bencoding(doc) ==
    CASE doc.kind = "int"   -> <<Chr.i>> \o Str(doc.i) \o <<Chr.e>>
      [] doc.kind = "bytes" -> Str(Len(doc.b)) \o <<Chr.colon>> \o doc.b
      [] doc.kind = "list"  -> <<Chr.l>> \o BencodingAll(doc.items, 1) \o <<Chr.e>>
      [] doc.kind = "dict"  ->
            <<Chr.d>>
            \o BencodingAll([k \in 1..(2 * Len(doc.entries)) |->
                                doc.entries[(k + 1) \div 2][2 - (k % 2)]], 1)
            \o <<Chr.e>>

-----------------------------------------------------------------------------
(* The calls. *)

Init ==
    /\ current_index = 0
    /\ tokens = <<>>
    /\ result = NoValue
    /\ exc = "none"
    /\ cause = "none"
    /\ \/ /\ call = "decode"
          /\ x = Raw
          /\ source \in RawInputs
          /\ pc = "lex"
       \/ /\ call = "decode"
          /\ x \in Documents
          /\ source = Bencoding(x)
          /\ pc = "lex"
       \/ /\ call = "encode_decode"
          /\ x \in Values \cup {NoValue}
          /\ source = <<>>
          /\ pc = "encode"
       \/ /\ call = "advance"
          /\ x \in [kind : {"spans"}, a : Spans, b : Spans, p : Positions]
          /\ source = x.a \o x.b
          /\ pc = "advance_a"
    /\ current_position = IF call = "advance" THEN x.p ELSE <<0, 0>>

\* encode_bytes(x), whose result is handed to decode_bytes.
Encode ==
    /\ pc = "encode"
    /\ LET r == encode_bytes(x)
       IN  IF r.st = "ok"
           THEN /\ source' = r.val
                /\ pc' = "lex"
                /\ exc' = exc
           ELSE /\ source' = source
                /\ pc' = "raised"
                /\ exc' = r.st
    /\ UNCHANGED <<call, x, current_index, current_position, tokens, result, cause>>

\* Lexer.__call__, one turn of the while loop that yields a token.
LexToken ==
    /\ pc = "lex"
    /\ current_index < Len(source)
    /\ LET token == match_specs(source, current_index, current_position)
       IN  /\ token # None
           /\ tokens' = Append(tokens, token)
           /\ current_position' = token.end
           /\ current_index' = current_index + Len(token.value)
    /\ UNCHANGED <<call, x, source, pc, result, exc, cause>>

\* match_specs raises SyntaxError; decode_bytes raises DecodeError from it.
LexSyntaxError ==
    /\ pc = "lex"
    /\ current_index < Len(source)
    /\ match_specs(source, current_index, current_position) = None
    /\ pc' = "raised"
    /\ exc' = "DecodeError"
    /\ cause' = "SyntaxError"
    /\ UNCHANGED <<call, x, source, current_index, current_position, tokens, result>>

\* The while condition fails: the generator is exhausted and list(...) is complete.
LexEnd ==
    /\ pc = "lex"
    /\ ~(current_index < Len(source))
    /\ pc' = "parse"
    /\ UNCHANGED <<call, x, source, current_index, current_position, tokens, result, exc, cause>>

\* decode_tokens(tokens): decode_bytes returns its value; it catches LexerError only.
Parse ==
    /\ pc = "parse"
    /\ LET r == decode_tokens(tokens)
       IN  IF r.st = "ok"
           THEN /\ result' = r.val
                /\ pc' = "returned"
                /\ exc' = exc
           ELSE /\ result' = result
                /\ pc' = "raised"
                /\ exc' = r.st
    /\ UNCHANGED <<call, x, source, current_index, current_position, tokens, cause>>

\* A caller tracking its position over the span a and then the span b:
\* position = get_new_position(span, position).
Advance ==
    /\ pc \in {"advance_a", "advance_b"}
    /\ LET span == IF pc = "advance_a" THEN x.a ELSE x.b
       IN  /\ current_position' = get_new_position(span, current_position)
           /\ current_index' = current_index + Len(span)
    /\ pc' = IF pc = "advance_a" THEN "advance_b" ELSE "advanced"
    /\ UNCHANGED <<call, x, source, tokens, result, exc, cause>>

Next == Encode \/ LexToken \/ LexSyntaxError \/ LexEnd \/ Parse \/ Advance

Spec == Init /\ [][Next]_vars

-----------------------------------------------------------------------------
(* Properties. *)

Done == pc \in {"returned", "raised"}

RECURSIVE Concat(_, _)
\* The values of tokens[1..n], concatenated.
Concat(toks, n) == IF n = 0 THEN <<>> ELSE Concat(toks, n - 1) \o toks[n].value

\* The declared length of a String token's value, and the length of its body.
DeclaredLength(v) == ParseInt(SubSeq(v, 1, DigitRun(v, 0)))
BodyLength(v) == Len(v) - DigitRun(v, 0) - 1

\* A dictionary document with a key that is no byte string, or with one key twice.
HasBadKey(doc) ==
    /\ doc.kind = "dict"
    /\ \/ \E k \in 1..Len(doc.entries) : doc.entries[k][1].kind # "bytes"
       \/ \E j, k \in 1..Len(doc.entries) : j # k /\ doc.entries[j][1] = doc.entries[k][1]

\* C1: decode_bytes(encode_bytes(v)) returns a value equal to v, dictionary
\* entry order included, for every Value v of the four kinds.
C1_RoundTrip ==
    (call = "encode_decode" /\ x # NoValue /\ Done) => (pc = "returned" /\ result = x)

\* C2: encode_bytes(i) of an integer i is 'i', the decimal digits of i ('-'
\* first iff i < 0, no leading zeros, '0' for zero), 'e'.
C2_IntegerEncoding ==
    (call = "encode_decode" /\ x.kind = "int" /\ pc # "encode")
        => source = <<Chr.i>> \o Str(x.i) \o <<Chr.e>>

\* C3: decoding 'i' + the canonical decimal literal of n + 'e' succeeds and
\* yields the integer n, for positive, zero and negative n.
C3_IntegerDecoding ==
    (call = "decode" /\ x.kind = "int" /\ Done) => (pc = "returned" /\ result = x)

\* C4: decoding '<decimal length of b>:' + b yields exactly the byte string b,
\* for b of any length (0 included) and any content.
C4_ByteStringDecoding ==
    (call = "decode" /\ x.kind = "bytes" /\ Done) => (pc = "returned" /\ result = x)

\* C5: every failing call of decode_bytes fails with DecodeError, whatever the
\* cause (lexical or grammatical); no other error kind escapes.
C5_OnlyDecodeError ==
    (call = "decode" /\ pc = "raised") => exc = "DecodeError"

\* C6: no String token is emitted whose body is shorter than its declared
\* length: a length prefix that overruns the buffer is a lexical error.
C6_NoShortString ==
    \A k \in 1..Len(tokens) :
        tokens[k].name = "String" => BodyLength(tokens[k].value) = DeclaredLength(tokens[k].value)

\* C7: decoding a dictionary with a key that is no ByteString, or with the same
\* key twice, fails with a grammar error and never returns a Dictionary.
C7_BadKeyRejected ==
    (call = "decode" /\ HasBadKey(x) /\ Done) => (pc = "raised" /\ exc \in {"DecodeError", "NoParseError"})

\* C8: position tracking is associative over concatenation: for every start
\* position p and byte spans a and b, with or without newlines,
\* get_new_position(b, get_new_position(a, p)) = get_new_position(a + b, p).
C8_PositionAssociative ==
    (call = "advance" /\ pc = "advanced")
        => current_position = get_new_position(x.a \o x.b, x.p)

\* Both spans hold a newline and bytes after it, from a start off the origin.
C8_Witness ==
    /\ call = "advance"
    /\ pc = "advanced"
    /\ x.p = <<3, 5>>
    /\ Count(x.a, Chr.nl) > 0 /\ x.a[Len(x.a)] # Chr.nl
    /\ Count(x.b, Chr.nl) > 0 /\ x.b[Len(x.b)] # Chr.nl
    /\ current_position = <<5, 1>>

\* The offsets at which the lexer scanned for the tokens it has emitted.
ScanOffset(k) == Len(Concat(tokens, k - 1))

\* C9: the lexer loop terminates: every emitted token is non-empty, so each
\* turn of the loop strictly increases the offset, which never passes the end
\* of the buffer (at most len(source) turns); the loop ends normally exactly
\* when the offset is the length of the buffer, or with a syntax error at the
\* first offset where none of the rules matches.
C9_LexerTerminates ==
    /\ [](\A k \in 1..Len(tokens) : Len(tokens[k].value) > 0)
    /\ [](Len(tokens) <= current_index /\ current_index <= Len(source))
    /\ [](cause = "SyntaxError" =>
            /\ current_index < Len(source)
            /\ match_specs(source, current_index, current_position) = None
            /\ \A k \in 1..Len(tokens) :
                  match_specs(source, ScanOffset(k), tokens[k].start) # None)
    /\ [](pc = "parse" => current_index = Len(source))
    /\ [][pc = "lex" =>
            \/ pc' = "lex" /\ current_index' > current_index /\ current_index < Len(source)
            \/ pc' = "parse" /\ current_index = Len(source)
            \/ pc' = "raised" /\ cause' = "SyntaxError" /\ current_index < Len(source)]_vars

\* The loop ended normally after a String token whose length prefix overran the buffer.
C9_Witness ==
    /\ pc = "parse"
    /\ current_index = Len(source)
    /\ Len(tokens) >= 2
    /\ \E k \in 1..Len(tokens) :
          tokens[k].name = "String" /\ DeclaredLength(tokens[k].value) > BodyLength(tokens[k].value)

\* C10: in every state of a lexer run the values of the emitted tokens
\* concatenate to source[0:offset]; the first token starts at (0, 0), every
\* later one where the one before it ends, each ends at get_new_position(value,
\* start), and the current position is get_new_position(source[0:offset], (0, 0)).
C10_TokensCoverPrefix ==
    call \in {"decode", "encode_decode"} =>
    /\ Concat(tokens, Len(tokens)) = Slice(source, 0, current_index)
    /\ tokens # <<>> => tokens[1].start = <<0, 0>>
    /\ \A k \in 2..Len(tokens) : tokens[k].start = tokens[k - 1].end
    /\ \A k \in 1..Len(tokens) :
          tokens[k].end = get_new_position(tokens[k].value, tokens[k].start)
    /\ current_position = get_new_position(Slice(source, 0, current_index), <<0, 0>>)

\* Several tokens in, past a newline and some way into the next line.
C10_Witness ==
    /\ Len(tokens) >= 3
    /\ \E k \in 1..Len(tokens) : Count(tokens[k].value, Chr.nl) > 0
    /\ current_position[1] >= 1
    /\ current_position[2] >= 2

====
